---- MODULE Spec2Model ----
(***************************************************************************)
(* The MCQ validation-and-repair pipeline of src/src/check.ts together     *)
(* with the zod schemas MCQ and MCQOutput of src/src/latex.ts.             *)
(*                                                                         *)
(* A JavaScript value is a record [k, s]: k is its typeof-like kind and s  *)
(* its text as a sequence of tokens (a token is a run of characters; the   *)
(* tokens "$", "{" and "}" are the characters the LaTeX check counts, " "  *)
(* is white space).  A UUID is the single token "uuid-1" or "uuid-2".      *)
(***************************************************************************)
EXTENDS Integers, Sequences, FiniteSets, TLC

\* Bounds of the model.
MaxBatch == 2       \* records of an input batch (Spec)
MaxOpts == 3        \* entries of an options sequence (SpecFix)
MaxId == 2          \* option ids are drawn from 0..MaxId (SpecFix)
MaxRuns == 2        \* runs of the tool, each on the output of the one before

VARIABLES questions, idx, validQuestions, report, pc, outputFile, reportFile, run

vars == <<questions, idx, validQuestions, report, pc, outputFile, reportFile, run>>

---------------------------------------------------------------------------
\* JavaScript values.
Undef == [k |-> "undefined", s |-> <<>>]
Null == [k |-> "null", s |-> <<>>]
Str(s) == [k |-> "string", s |-> s]
Num(n) == [k |-> "number", s |-> <<ToString(n)>>]
Bool(b) == [k |-> "boolean", s |-> <<IF b THEN "true" ELSE "false">>]

\* JavaScript truthiness, as used by ||, && and !.
Truthy(v) ==
  CASE v.k = "string" -> v.s # <<>>
    [] v.k = "number" -> v.s # <<"0">>
    [] v.k = "boolean" -> v.s = <<"true">>
    [] OTHER -> FALSE

\* a || b
Or(a, b) == IF Truthy(a) THEN a ELSE b

\* (text.match(/c/g) || []).length
RECURSIVE Count(_, _)
Count(c, s) ==
  IF s = <<>> THEN 0
  ELSE (IF Head(s) = c THEN 1 ELSE 0) + Count(c, Tail(s))

\* String.prototype.trim
RECURSIVE TrimLeft(_)
TrimLeft(s) == IF s # <<>> /\ Head(s) = " " THEN TrimLeft(Tail(s)) ELSE s

RECURSIVE TrimRight(_)
TrimRight(s) ==
  IF s # <<>> /\ s[Len(s)] = " " THEN TrimRight(SubSeq(s, 1, Len(s) - 1)) ELSE s

Trim(s) == TrimRight(TrimLeft(s))

\* z.string().uuid()
IsUuid(v) == v.k = "string" /\ v.s \in {<<"uuid-1">>, <<"uuid-2">>}

\* The refinement of latexString: an even number of "$" and balanced braces.
latexString(v) ==
  /\ v.k = "string"
  /\ \/ v.s = <<>>
     \/ /\ Count("$", v.s) % 2 = 0
        /\ Count("{", v.s) - Count("}", v.s) = 0

---------------------------------------------------------------------------
\* Array.prototype.sort((a, b) => a - b), by insertion.
RECURSIVE Insert(_, _)
Insert(x, s) ==
  IF s = <<>> THEN <<x>>
  ELSE IF x <= Head(s) THEN <<x>> \o s
  ELSE <<Head(s)>> \o Insert(x, Tail(s))

RECURSIVE Sort(_)
Sort(s) == IF s = <<>> THEN <<>> ELSE Insert(Head(s), Sort(Tail(s)))

\* The four refinements shared by MCQ.options and MCQOutput.options.
AtLeastTwo(options) == Len(options) >= 2

ExactlyOneCorrect(options) ==
  Cardinality({i \in 1..Len(options) : options[i].correct}) = 1

UniqueIds(options) ==
  Cardinality({options[i].id : i \in 1..Len(options)}) = Len(options)

SequentialOrdersAtLeast(options) ==
  LET orders == Sort([i \in 1..Len(options) |-> options[i].order])
  IN \A i \in 1..Len(orders) : orders[i] >= i - 1

SequentialOrders(options) ==
  LET orders == Sort([i \in 1..Len(options) |-> options[i].order])
  IN \A i \in 1..Len(orders) : orders[i] = i - 1

---------------------------------------------------------------------------
\* An options entry is [k, id, content, correct, order]; k = "null" is a JSON
\* null in the array.  An options field is [k, json, arr]: k = "array" holds
\* arr; k = "string" holds a JSON text that is "invalid" or encodes an
\* "array" (arr), the value "null" or a "number"; k = "undefined" is absent.
option(id, content, correct, order) ==
  [k |-> "object", id |-> id, content |-> content, correct |-> correct,
   order |-> order]

nullEntry ==
  [k |-> "null", id |-> 0, content |-> Undef, correct |-> FALSE, order |-> 0]

optionsArray(arr) == [k |-> "array", json |-> "", arr |-> arr]
optionsString(json, arr) == [k |-> "string", json |-> json, arr |-> arr]
optionsAbsent == [k |-> "undefined", json |-> "", arr |-> <<>>]

\* An Issue of a QuestionReport.
Issue(type, message, field, originalValue, fixedValue) ==
  [type |-> type, message |-> message, field |-> field,
   originalValue |-> originalValue, fixedValue |-> fixedValue]

\* The entry check.ts pushes for one issue of a ZodError.
ZodIssue(message, field) == Issue("error", message, field, Undef, Undef)

\* Schema Option: id number, content string of at least 1 character, correct
\* boolean, order a non-negative integer.
Option(e) ==
  /\ e.k = "object"
  /\ e.content.k = "string"
  /\ Len(e.content.s) >= 1
  /\ e.order >= 0

\* The issues of the refinements of an options array, in schema order.
RefineIssues(options) ==
  (IF AtLeastTwo(options) THEN <<>>
   ELSE <<ZodIssue("Question must have at least 2 options", "options")>>)
  \o (IF ExactlyOneCorrect(options) THEN <<>>
      ELSE <<ZodIssue("Question must have exactly one correct answer", "options")>>)
  \o (IF UniqueIds(options) THEN <<>>
      ELSE <<ZodIssue("All option IDs must be unique", "options")>>)
  \o (IF SequentialOrders(options) THEN <<>>
      ELSE <<ZodIssue("Option orders must be sequential starting from 0", "options")>>)

\* The issues of z.array(Option) on an array: one per entry that is no Option.
RECURSIVE EntryIssues(_, _)
EntryIssues(arr, i) ==
  IF i > Len(arr) THEN <<>>
  ELSE (IF Option(arr[i]) THEN <<>>
        ELSE <<ZodIssue("Invalid input", "options." \o ToString(i - 1))>>)
       \o EntryIssues(arr, i + 1)

\* The options field of MCQ: string or Option[], JSON.parse of a string (a
\* SyntaxError of JSON.parse is thrown through zod), then Option[] and the
\* refinements.  status "throw" is the SyntaxError.
MCQOptions(raw) ==
  IF raw.k = "undefined"
  THEN [status |-> "zod", issues |-> <<ZodIssue("Invalid input", "options")>>]
  ELSE IF raw.k = "string" /\ raw.json = "invalid"
  THEN [status |-> "throw", issues |-> <<>>]
  ELSE IF raw.k = "string" /\ raw.json # "array"
  THEN [status |-> "zod", issues |-> <<ZodIssue("Invalid input", "options")>>]
  ELSE LET entries == EntryIssues(raw.arr, 1)
           issues == IF entries # <<>> THEN entries ELSE RefineIssues(raw.arr)
       IN [status |-> IF issues = <<>> THEN "ok" ELSE "zod", issues |-> issues]

\* An option of an output record.
OutOption(e) ==
  [id |-> e.id, content |-> e.content, correct |-> e.correct, order |-> e.order]

\* MCQ.parse(question): status "ok" with the parsed value, "zod" with the
\* issues of the ZodError, or "throw" for an error that is no ZodError.
MCQ(question) ==
  IF question.k # "object"
  THEN [status |-> "zod", issues |-> <<ZodIssue("Invalid input", "")>>]
  ELSE
    LET opts == MCQOptions(question.options)
        issues ==
          (IF IsUuid(question.question_id) THEN <<>>
           ELSE <<ZodIssue("Invalid UUID", "question_id")>>)
          \o (IF latexString(question.specification) THEN <<>>
              ELSE <<ZodIssue("LaTeX syntax error: unmatched delimiters",
                              "specification")>>)
          \o opts.issues
    IN IF opts.status = "throw" THEN [status |-> "throw", issues |-> <<>>]
       ELSE [status |-> IF issues = <<>> THEN "ok" ELSE "zod", issues |-> issues]

\* The issues of MCQOutput on a candidate {id, question, options}.
MCQOutputOptionOK(o) ==
  /\ latexString(o.content)
  /\ Len(o.content.s) >= 1
  /\ o.order >= 0

MCQOutputIssues(candidate) ==
  LET options == candidate.options
      entries == {i \in 1..Len(options) : ~MCQOutputOptionOK(options[i])}
  IN (IF IsUuid(candidate.id) THEN <<>> ELSE <<ZodIssue("Invalid UUID", "id")>>)
     \o (IF candidate.question.k = "null" \/ latexString(candidate.question)
         THEN <<>>
         ELSE <<ZodIssue("LaTeX syntax error: unmatched delimiters", "question")>>)
     \o (IF entries # {} THEN <<ZodIssue("Invalid input", "options")>>
         ELSE RefineIssues(options))

\* MCQOutput.parse succeeds.
MCQOutput(candidate) == MCQOutputIssues(candidate) = <<>>

---------------------------------------------------------------------------
\* attemptToFixQuestion.

\* Math.max(...Array.from(seenIds), 0)
MathMin(seenIds) ==
  LET S == seenIds \cup {0} IN CHOOSE x \in S : \A y \in S : x <= y

MathMax(seenIds) ==
  LET S == seenIds \cup {0} IN CHOOSE x \in S : \A y \in S : y <= x

\* seenIds.add(id): id is the reassigned id when option.id was a duplicate.
AddSeenOriginal(seenIds, optionId, id) == seenIds \cup {optionId}

AddSeen(seenIds, optionId, id) == seenIds \cup {id}

\* The accumulators of the repair loop before its first iteration.
FixStart ==
  [fixedOptions |-> <<>>, seenIds |-> {}, seenContent |-> {},
   correctCount |-> 0, issues |-> <<>>, threw |-> FALSE]

\* One iteration of the repair loop, on options[i] (i counts from 0).
FixIteration(opt, i, st) ==
  IF opt.k # "object" THEN st
  ELSE
    LET dupId == opt.id \in st.seenIds
        id == IF dupId THEN MathMax(st.seenIds) + 1 ELSE opt.id
        idIssues ==
          IF dupId
          THEN <<Issue("fixed", "Fixed duplicate option ID",
                       "options[" \o ToString(i) \o "].id", Num(opt.id), Num(id))>>
          ELSE <<>>
        raw == Or(opt.content, Str(<<>>))
        seen == raw \in st.seenContent
        \* content.trim is not a function: a TypeError
        trimThrows == seen /\ raw.k # "string"
        dupContent == seen /\ raw.k = "string" /\ Trim(raw.s) # <<>>
        content ==
          IF dupContent
          THEN Str(raw.s \o <<" (Option ", ToString(i + 1), ")">>)
          ELSE raw
        contentIssues ==
          IF dupContent
          THEN <<Issue("fixed", "Fixed duplicate option content",
                       "options[" \o ToString(i) \o "].content", opt.content, content)>>
          ELSE <<>>
    IN IF trimThrows THEN [st EXCEPT !.threw = TRUE]
       ELSE [fixedOptions |->
               Append(st.fixedOptions,
                      [id |-> id, content |-> content, correct |-> opt.correct,
                       order |-> i]),
             seenIds |-> AddSeen(st.seenIds, opt.id, id),
             seenContent |-> st.seenContent \cup {content},
             correctCount |-> st.correctCount + (IF opt.correct THEN 1 ELSE 0),
             issues |-> st.issues \o idIssues \o contentIssues,
             threw |-> FALSE]

\* The repair loop over options[i..], i counting from 1 here.
RECURSIVE FixLoop(_, _, _)
FixLoop(options, i, st) ==
  IF i > Len(options) \/ st.threw THEN st
  ELSE FixLoop(options, i + 1, FixIteration(options[i], i - 1, st))

\* Multiple correct answers: keep only the first one.  Returns the options and
\* the issues of options[i..] given whether a correct one came before.
RECURSIVE KeepFirstCorrect(_, _, _)
KeepFirstCorrect(fixedOptions, i, firstCorrect) ==
  IF i > Len(fixedOptions) THEN [options |-> <<>>, issues |-> <<>>]
  ELSE
    LET o == fixedOptions[i]
        flip == o.correct /\ ~firstCorrect
        rest == KeepFirstCorrect(fixedOptions, i + 1,
                                 firstCorrect /\ ~(o.correct /\ ~flip))
    IN [options |-> <<[o EXCEPT !.correct = o.correct /\ ~flip]>> \o rest.options,
        issues |->
          (IF flip
           THEN <<Issue("fixed",
                        "Multiple correct answers found, kept only the first one",
                        "options[" \o ToString(o.id) \o "].correct",
                        Bool(TRUE), Bool(FALSE))>>
           ELSE <<>>) \o rest.issues]

\* The correct-answer repair after the loop.
FixCorrectNoZeroCase(fixedOptions, correctCount) ==
  IF correctCount > 1 THEN KeepFirstCorrect(fixedOptions, 1, TRUE)
  ELSE [options |-> fixedOptions, issues |-> <<>>]

FixCorrect(fixedOptions, correctCount) ==
  IF correctCount = 0
  THEN IF Len(fixedOptions) > 0
       THEN [options |-> [fixedOptions EXCEPT ![1].correct = TRUE],
             issues |->
               <<Issue("fixed",
                       "No correct answer found, marked first option as correct",
                       "options[0].correct", Bool(FALSE), Bool(TRUE))>>]
       ELSE [options |-> fixedOptions, issues |-> <<>>]
  ELSE IF correctCount > 1 THEN KeepFirstCorrect(fixedOptions, 1, TRUE)
  ELSE [options |-> fixedOptions, issues |-> <<>>]

\* attemptToFixQuestion(question, report): threw is a TypeError leaving the
\* function; otherwise isNull tells a null result from the candidate, issues
\* are the Issues pushed to the report and fixedOptions the repaired options.
NoCandidate == [id |-> Undef, question |-> Null, options |-> <<>>]

\* id: question.question_id || question.id
FixIdNoFallback(question) == question.question_id

FixId(question) == Or(question.question_id, question.id)

FixResult(threw, isNull, candidate, issues, fixedOptions) ==
  [threw |-> threw, isNull |-> isNull, candidate |-> candidate,
   issues |-> issues, fixedOptions |-> fixedOptions]

attemptToFixQuestion(question) ==
  LET raw == question.options
      id == FixId(question)
      text == Or(Or(question.specification, question.question), Null)
  IN IF raw.k = "undefined" \/ (raw.k = "string" /\ raw.json = "invalid")
     THEN FixResult(FALSE, TRUE, NoCandidate, <<>>, <<>>)
     ELSE IF raw.k = "string" /\ raw.json = "null"
     \* options.length of null: a TypeError
     THEN FixResult(TRUE, TRUE, NoCandidate, <<>>, <<>>)
     ELSE
       LET options == IF raw.k = "string" /\ raw.json # "array" THEN <<>> ELSE raw.arr
           st == FixLoop(options, 1, FixStart)
           fixed == FixCorrect(st.fixedOptions, st.correctCount)
           issues == st.issues \o fixed.issues
       IN IF st.threw THEN FixResult(TRUE, TRUE, NoCandidate, <<>>, <<>>)
          ELSE IF Len(fixed.options) < 2
          THEN FixResult(FALSE, TRUE, NoCandidate, issues, fixed.options)
          ELSE FixResult(FALSE, FALSE,
                         [id |-> id, question |-> text, options |-> fixed.options],
                         issues, fixed.options)

---------------------------------------------------------------------------
\* validateAndFixMCQs.

\* A record of the input array: k = "null" is a JSON null, k = "number" a JSON
\* number, k = "object" an object with the fields the pipeline reads.
question(question_id, id, specification, text, options) ==
  [k |-> "object", question_id |-> question_id, id |-> id,
   specification |-> specification, question |-> text, options |-> options]

nullQuestion ==
  [k |-> "null", question_id |-> Undef, id |-> Undef, specification |-> Undef,
   question |-> Undef, options |-> optionsAbsent]

numberQuestion ==
  [k |-> "number", question_id |-> Undef, id |-> Undef, specification |-> Undef,
   question |-> Undef, options |-> optionsAbsent]

\* question.question_id || question.id || "unknown"
QuestionId(q) == Or(Or(q.question_id, q.id), Str(<<"unknown">>))

QuestionReport(questionId, issues, wasFixed, wasRemoved) ==
  [questionId |-> questionId, issues |-> issues, wasFixed |-> wasFixed,
   wasRemoved |-> wasRemoved]

\* The outcome of one iteration: threw (an error leaves validateAndFixMCQs),
\* the records pushed to validQuestions and the finished QuestionReport.
Outcome(threw, pushed, qr) == [threw |-> threw, pushed |-> pushed, qr |-> qr]

Threw == Outcome(TRUE, <<>>, QuestionReport(Undef, <<>>, FALSE, FALSE))

\* validQuestions.push(validatedQuestion); wasFixed = true; fixedQuestions++
AcceptedNotPushed(questionId, issues, validatedQuestion) ==
  Outcome(FALSE, <<>>, QuestionReport(questionId, issues, TRUE, FALSE))

Accepted(questionId, issues, validatedQuestion) ==
  Outcome(FALSE, <<validatedQuestion>>,
          QuestionReport(questionId, issues, TRUE, FALSE))

\* wasRemoved = true; removedQuestions++ (no candidate, or one that fails
\* MCQOutput)
RemovedNotFlagged(questionId, issues) ==
  Outcome(FALSE, <<>>, QuestionReport(questionId, issues, FALSE, FALSE))

Removed(questionId, issues) ==
  Outcome(FALSE, <<>>, QuestionReport(questionId, issues, FALSE, TRUE))

\* The branch of an error that is no ZodError.
UnexpectedKept(questionId) ==
  Outcome(FALSE, <<>>,
          QuestionReport(questionId,
            <<Issue("error", "Unexpected error during validation", "",
                    Undef, Undef)>>, TRUE, FALSE))

Unexpected(questionId) ==
  Outcome(FALSE, <<>>,
          QuestionReport(questionId,
            <<Issue("error", "Unexpected error during validation", "",
                    Undef, Undef)>>, FALSE, TRUE))

\* The body of the for loop on one record.
ProcessQuestion(q) ==
  IF q.k = "null" THEN Threw      \* question.question_id of null: a TypeError
  ELSE
    LET questionId == QuestionId(q)
        parsed == MCQ(q)
        outputQuestion ==
          [id |-> q.question_id, question |-> q.specification,
           options |-> [i \in 1..Len(q.options.arr) |-> OutOption(q.options.arr[i])]]
        outIssues == IF parsed.status = "ok" THEN MCQOutputIssues(outputQuestion)
                     ELSE <<>>
    IN IF parsed.status = "ok" /\ outIssues = <<>>
       THEN Accepted(questionId,
                     <<Issue("fixed", "Question validated successfully", "",
                             Undef, Undef)>>, outputQuestion)
       ELSE IF parsed.status = "throw" THEN Unexpected(questionId)
       ELSE
         LET errors == parsed.issues \o outIssues
             fix == attemptToFixQuestion(q)
         IN IF fix.threw THEN Threw
            ELSE IF fix.isNull THEN Removed(questionId, errors \o fix.issues)
            ELSE IF MCQOutput(fix.candidate)
            THEN Accepted(questionId, errors \o fix.issues, fix.candidate)
            ELSE Removed(questionId,
                         errors \o fix.issues
                         \o <<Issue("error",
                                    "Question could not be fixed automatically",
                                    "", Undef, Undef)>>)

\* report.questions[key] = qr
PutKeepFirst(map, key, qr) ==
  [x \in DOMAIN map \cup {key} |-> IF x \in DOMAIN map THEN map[x] ELSE qr]

Put(map, key, qr) ==
  [x \in DOMAIN map \cup {key} |-> IF x = key THEN qr ELSE map[x]]

EmptyMap == [x \in {} |-> 0]

NewReport(qs) ==
  [totalQuestions |-> Len(qs), fixedQuestions |-> 0, removedQuestions |-> 0,
   questions |-> EmptyMap]

NoFile == [written |-> FALSE, data |-> <<>>]

\* JSON.parse of a dataset written by JSON.stringify(validQuestions): every
\* record is an object with the keys id, question and options.
ReadOutput(data) ==
  [i \in 1..Len(data) |->
     question(Undef, data[i].id, Undef, data[i].question,
              optionsArray([j \in 1..Len(data[i].options) |->
                 option(data[i].options[j].id, data[i].options[j].content,
                        data[i].options[j].correct, data[i].options[j].order)]))]

---------------------------------------------------------------------------
\* The input records of the batches.
U1 == Str(<<"uuid-1">>)
U2 == Str(<<"uuid-2">>)
Q == Str(<<"Q">>)
A == Str(<<"A">>)
B == Str(<<"B">>)

OptionFields ==
  { optionsArray(<<option(0, A, TRUE, 0), option(1, B, FALSE, 1)>>),
    optionsArray(<<option(0, A, TRUE, 1), option(1, A, FALSE, 0)>>),
    optionsArray(<<option(0, A, FALSE, 0), option(0, A, TRUE, 0)>>),
    optionsArray(<<option(0, Str(<<>>), TRUE, 0), option(1, A, FALSE, 1),
                   option(2, B, FALSE, 2)>>),
    optionsArray(<<option(0, A, TRUE, 0), nullEntry, option(1, B, TRUE, 1)>>),
    optionsArray(<<option(0, Num(5), TRUE, 0), option(1, Num(5), FALSE, 1)>>),
    optionsArray(<<option(0, Str(<<"$">>), TRUE, 0), option(1, B, FALSE, 1)>>),
    optionsArray(<<option(0, A, TRUE, 0)>>),
    optionsString("array", <<option(0, A, TRUE, 0), option(1, B, FALSE, 1)>>),
    optionsString("array", <<option(1, A, FALSE, 0), option(1, B, FALSE, 0)>>),
    optionsString("invalid", <<>>),
    optionsString("null", <<>>),
    optionsString("number", <<>>),
    optionsAbsent }

Records ==
  {question(qid, Undef, spec, Undef,
            optionsArray(<<option(0, A, TRUE, 0), option(1, B, FALSE, 1)>>)) :
     qid \in {U1, U2, Undef}, spec \in {Q, Str(<<>>), Str(<<"$">>)}}
  \cup {question(U1, Undef, Q, Undef, o) : o \in OptionFields}
  \cup {question(Undef, U2, Undef, Q, o) : o \in OptionFields}
  \cup {nullQuestion, numberQuestion}

---------------------------------------------------------------------------
Init ==
  /\ \E n \in 0..MaxBatch : questions \in [1..n -> Records]
  /\ idx = 1
  /\ validQuestions = <<>>
  /\ report = NewReport(questions)
  /\ pc = "loop"
  /\ outputFile = NoFile
  /\ reportFile = NoFile
  /\ run = 1

\* validQuestions.push(validatedQuestion), for the records an iteration pushes.
PushFront(valid, pushed) == pushed \o valid

Push(valid, pushed) == valid \o pushed

\* One iteration of the loop of validateAndFixMCQs; an error thrown outside
\* the try blocks leaves the function and main exits with status 1.
Process ==
  /\ pc = "loop"
  /\ idx <= Len(questions)
  /\ LET o == ProcessQuestion(questions[idx])
     IN IF o.threw
        THEN /\ pc' = "crashed"
             /\ UNCHANGED <<idx, validQuestions, report>>
        ELSE /\ pc' = pc
             /\ idx' = idx + 1
             /\ validQuestions' = Push(validQuestions, o.pushed)
             /\ report' =
                  [report EXCEPT
                     !.fixedQuestions = @ + (IF o.qr.wasFixed THEN 1 ELSE 0),
                     !.removedQuestions = @ + (IF o.qr.wasRemoved THEN 1 ELSE 0),
                     !.questions = Put(@, o.qr.questionId.s, o.qr)]
  /\ UNCHANGED <<questions, outputFile, reportFile, run>>

\* The loop is over: validateAndFixMCQs returns and main writes both files.
Finish ==
  /\ pc = "loop"
  /\ idx > Len(questions)
  /\ outputFile' = [written |-> TRUE, data |-> validQuestions]
  /\ reportFile' = [written |-> TRUE, data |-> <<report>>]
  /\ pc' = "exited"
  /\ UNCHANGED <<questions, idx, validQuestions, report, run>>

\* The tool is started again with the dataset it wrote as its input.
Rerun ==
  /\ pc = "exited"
  /\ run < MaxRuns
  /\ run' = run + 1
  /\ questions' = ReadOutput(outputFile.data)
  /\ idx' = 1
  /\ validQuestions' = <<>>
  /\ report' = NewReport(questions')
  /\ pc' = "loop"
  /\ outputFile' = NoFile
  /\ reportFile' = NoFile

Next == Process \/ Finish \/ Rerun

Spec == Init /\ [][Next]_vars

---------------------------------------------------------------------------
\* The repair on its own: a batch of one record whose options array is any
\* sequence of at most MaxOpts entries, each a null or an option with an id
\* of 0..MaxId, an empty or non-empty content and order equal to its index.
EntryChoices ==
  {nullEntry}
  \cup {option(id, content, correct, 0) :
          id \in 0..MaxId, content \in {Str(<<>>), A}, correct \in BOOLEAN}

\* The entries f with order set to the index.
Ordered(f) ==
  [i \in 1..Len(f) |-> IF f[i].k = "null" THEN nullEntry
                       ELSE [f[i] EXCEPT !.order = i - 1]]

InitFix ==
  /\ \E n \in 0..MaxOpts : \E f \in [1..n -> EntryChoices] :
       questions = <<question(U1, Undef, Q, Undef, optionsArray(Ordered(f)))>>
  /\ idx = 1
  /\ validQuestions = <<>>
  /\ report = NewReport(questions)
  /\ pc = "loop"
  /\ outputFile = NoFile
  /\ reportFile = NoFile
  /\ run = 1

\* One run of the tool.
NextFix == Process \/ Finish

SpecFix == InitFix /\ [][NextFix]_vars

---------------------------------------------------------------------------
\* Properties of the batch (Spec).

\* The report entry of the record at position i of the input.
EntryOf(rep, i) == rep.questions[QuestionId(questions[i]).s]

HasIssue(qr, type, message) ==
  \E n \in 1..Len(qr.issues) :
    qr.issues[n].type = type /\ qr.issues[n].message = message

\* C1: when validateAndFixMCQs has completed, fixedQuestions +
\* removedQuestions equals totalQuestions.
C1_CountsAddUp ==
  pc = "exited" =>
    report.fixedQuestions + report.removedQuestions = report.totalQuestions

\* A completed run over a batch holding an accepted record, a removed one and
\* one that failed with an error that is no ZodError.
C1_Witness ==
  /\ pc = "exited"
  /\ run = 1
  /\ report.fixedQuestions = 1
  /\ report.removedQuestions = 1
  /\ \E key \in DOMAIN report.questions :
       HasIssue(report.questions[key], "error", "Unexpected error during validation")

\* C2: every record of the output dataset has at least 2 options, exactly one
\* correct option, pairwise distinct option ids, order values that are exactly
\* 0..n-1, no empty content, and a question text that is null or has an even
\* number of "$" and as many "{" as "}".
WellFormedOutput(rec) ==
  LET o == rec.options
      n == Len(o)
  IN /\ n >= 2
     /\ \E c \in 1..n : o[c].correct /\ \A d \in 1..n : o[d].correct => d = c
     /\ \A i, j \in 1..n : i # j => o[i].id # o[j].id
     /\ \A v \in 0..(n - 1) : \E i \in 1..n : o[i].order = v
     /\ \A i \in 1..n : o[i].order \in 0..(n - 1)
     /\ \A i \in 1..n : o[i].content.k = "string" /\ o[i].content.s # <<>>
     /\ \/ rec.question.k = "null"
        \/ /\ rec.question.k = "string"
           /\ Count("$", rec.question.s) % 2 = 0
           /\ Count("{", rec.question.s) = Count("}", rec.question.s)

C2_OutputWellFormed ==
  \A i \in 1..Len(validQuestions) : WellFormedOutput(validQuestions[i])

\* The output holds a record that came out of the repair with a reassigned id.
C2_Witness ==
  /\ Len(validQuestions) = 2
  /\ \E key \in DOMAIN report.questions :
       /\ report.questions[key].wasFixed
       /\ HasIssue(report.questions[key], "fixed", "Fixed duplicate option ID")

\* C3: a processed record's QuestionReport has exactly one of wasFixed and
\* wasRemoved set; wasFixed exactly when the record was appended to the
\* output, wasRemoved exactly when it was not.
C3_Step ==
  (Process /\ pc' = "loop") =>
    LET qr == EntryOf(report', idx)
    IN /\ qr.wasFixed # qr.wasRemoved
       /\ qr.wasFixed <=> Len(validQuestions') = Len(validQuestions) + 1
       /\ qr.wasRemoved <=> validQuestions' = validQuestions

C3_OneDisposition == [][C3_Step]_vars

\* Both dispositions have been recorded in one run.
C3_Witness ==
  /\ idx = 3
  /\ \E key \in DOMAIN report.questions : report.questions[key].wasRemoved
  /\ \E key \in DOMAIN report.questions :
       /\ report.questions[key].wasFixed
       /\ Len(validQuestions) = 1

\* C4: no record makes validateAndFixMCQs throw: the run never ends in the
\* error exit of main.
C4_NeverHalts == pc # "crashed"

\* C5 as stated: a run on the output of the run before writes that same
\* dataset and reports every record as Passed.
Passed(qr) ==
  /\ qr.wasFixed
  /\ ~qr.wasRemoved
  /\ \A n \in 1..Len(qr.issues) : qr.issues[n].type # "error"
  /\ HasIssue(qr, "fixed", "Question validated successfully")

SameUpToRepair(out, in) ==
  /\ out.id = in.id
  /\ out.question = Or(in.question, Null)
  /\ Len(out.options) = Len(in.options.arr)
  /\ \A j \in 1..Len(out.options) :
       /\ out.options[j].id = in.options.arr[j].id
       /\ out.options[j].correct = in.options.arr[j].correct
       /\ out.options[j].order = j - 1

BadJson(q) == q.k = "object" /\ q.options.k = "string" /\ q.options.json = "invalid"

C8_Step ==
  (Process /\ BadJson(questions[idx])) =>
    /\ pc' = "loop"
    /\ idx' = idx + 1
    /\ validQuestions' = validQuestions
    /\ report'.removedQuestions = report.removedQuestions + 1
    /\ report'.fixedQuestions = report.fixedQuestions
    /\ EntryOf(report', idx).wasRemoved
    /\ ~EntryOf(report', idx).wasFixed

C8_BadJsonRemoved == [][C8_Step]_vars

\* The first record had unparsable options and the second one was processed
\* after it.
C8_Witness ==
  /\ idx = 3
  /\ BadJson(questions[1])
  /\ report.removedQuestions >= 1

---------------------------------------------------------------------------
\* Properties of the repair (SpecFix): the batch is one record, questions[1].

\* The record has been processed without an error leaving the loop.
FixProcessed == run = 1 /\ idx = 2

FixInput == questions[1].options.arr

IsObject(e) == e.k = "object"

\* The entries the repair loop does not skip, in their order.
Surviving == SelectSeq(FixInput, IsObject)

\* The options as repaired by attemptToFixQuestion on the record.
Repaired == attemptToFixQuestion(questions[1]).fixedOptions

\* The number of 'fixed' Issues with one of the messages in the report entry.
FixedIssues(messages) ==
  LET issues == EntryOf(report, 1).issues
  IN Cardinality({n \in 1..Len(issues) :
                    issues[n].type = "fixed" /\ issues[n].message \in messages})

IdIssues == FixedIssues({"Fixed duplicate option ID"})

CorrectIssues ==
  FixedIssues({"No correct answer found, marked first option as correct",
               "Multiple correct answers found, kept only the first one"})

\* The options of surv whose original id repeats an earlier original id.
OriginalRepeats(surv) ==
  {j \in 1..Len(surv) : \E l \in 1..(j - 1) : surv[l].id = surv[j].id}

Ids(options) == [j \in 1..Len(options) |-> options[j].id]

\* C6 as stated: the repaired ids of [0, 0, 1] are pairwise distinct and the
\* number of 'fixed' id Issues equals the number of options whose original id
\* repeated an earlier original id (one for [0, 0, 1]).
C6_OneIssuePerRepeat ==
  FixProcessed =>
    LET surv == Surviving
        rep == Repaired
        n == IdIssues
    IN /\ n = Cardinality(OriginalRepeats(surv))
       /\ Ids(surv) = <<0, 0, 1>> =>
            /\ n = 1
            /\ \A i, j \in 1..3 : i # j => rep[i].id # rep[j].id

\* C6 amended: the repaired ids of [0, 0, 1] are [0, 1, 2], pairwise distinct,
\* with two 'fixed' id Issues; in general the number of 'fixed' id Issues
\* equals the number of options whose original id was already assigned to an
\* earlier option, as its original or as its reassigned id, which is at least
\* the number of options whose original id repeated an earlier original id.
TakenBefore(surv, rep) ==
  {j \in 1..Len(surv) : \E l \in 1..(j - 1) : rep[l].id = surv[j].id}

C6_IssuePerTakenId ==
  FixProcessed =>
    LET surv == Surviving
        rep == Repaired
        n == IdIssues
    IN /\ Len(rep) = Len(surv)
       /\ n = Cardinality(TakenBefore(surv, rep))
       /\ n >= Cardinality(OriginalRepeats(surv))
       /\ Ids(surv) = <<0, 0, 1>> => (Ids(rep) = <<0, 1, 2>> /\ n = 2)

\* The options with ids [0, 0, 1] have been repaired.
C6_Witness ==
  /\ FixProcessed
  /\ Ids(Surviving) = <<0, 0, 1>>
  /\ IdIssues = 2

\* C7: with at least one surviving option, exactly one repaired option is
\* correct: the first originally correct one, or the first surviving one when
\* none was; one 'fixed' Issue is logged when none was correct, c - 1 when
\* c > 1 were, none when exactly one was.
OriginallyCorrect(surv) == {j \in 1..Len(surv) : surv[j].correct}

FirstCorrect(surv) ==
  LET c == OriginallyCorrect(surv)
  IN IF c = {} THEN 1 ELSE CHOOSE j \in c : \A l \in c : j <= l

C7_ExactlyOneCorrect ==
  (FixProcessed /\ Len(Surviving) >= 1) =>
    LET surv == Surviving
        rep == Repaired
        first == FirstCorrect(surv)
        c == Cardinality(OriginallyCorrect(surv))
    IN /\ Len(rep) = Len(surv)
       /\ \A j \in 1..Len(rep) : rep[j].correct <=> j = first
       /\ CorrectIssues = IF c = 0 THEN 1 ELSE c - 1

\* Three options, all of them correct, have been repaired and two flipped.
C7_Witness ==
  /\ FixProcessed
  /\ Len(Surviving) = 3
  /\ Cardinality(OriginallyCorrect(Surviving)) = 3
  /\ CorrectIssues = 2

\* C9: a record with empty option contents is kept, without those options,
\* whenever at least 2 options with a non-empty content remain.
EmptyContent(surv) == {j \in 1..Len(surv) : surv[j].content = Str(<<>>)}

ValidContent(surv) ==
  {j \in 1..Len(surv) : surv[j].content.k = "string" /\ surv[j].content.s # <<>>}

C9_EmptyOptionsDropped ==
  LET surv == Surviving
      empty == EmptyContent(surv)
      valid == ValidContent(surv)
  IN (/\ FixProcessed
      /\ empty # {}
      /\ Cardinality(valid) >= 2
      /\ empty \cup valid = 1..Len(surv)) =>
       /\ Len(validQuestions) = 1
       /\ EntryOf(report, 1).wasFixed
       /\ Len(validQuestions[1].options) = Cardinality(valid)

\* C10: the repaired options carry the order values 0..m-1 in their order,
\* whatever entries were skipped.
C10_OrdersSequential ==
  FixProcessed =>
    LET rep == Repaired IN \A j \in 1..Len(rep) : rep[j].order = j - 1

---------------------------------------------------------------------------
\* The options whose original id is no repeat of an earlier original id but
\* equals the id an earlier option was reassigned to.
MeetsReassigned(surv, rep) ==
  {j \in 1..Len(surv) :
     /\ j \notin OriginalRepeats(surv)
     /\ \E l \in 1..(j - 1) : rep[l].id = surv[j].id /\ rep[l].id # surv[l].id}

HasCollision(rep) ==
  \E a, b \in 1..Len(rep) : a # b /\ rep[a].id = rep[b].id

---------------------------------------------------------------------------
\* The identifiers of the first n records of the input ("unknown" for a
\* record that has none).
Identifiers(n) == {QuestionId(questions[i]).s : i \in 1..n}

\* C12: the report map holds one entry per distinct identifier of the
\* records processed, the entry of an identifier being that of the record
\* processed last, while the counters count every record: an iteration
\* stores its own QuestionReport under the record's identifier, over any
\* entry already there, leaves the other entries alone and adds one to
\* fixedQuestions + removedQuestions.
C12_Step ==
  (Process /\ pc' = "loop") =>
    LET key == QuestionId(questions[idx]).s
        qr == report'.questions[key]
    IN /\ DOMAIN report'.questions = Identifiers(idx)
       /\ Cardinality(DOMAIN report'.questions) = Cardinality(Identifiers(idx))
       /\ qr.wasFixed <=> Len(validQuestions') = Len(validQuestions) + 1
       /\ qr.wasRemoved <=> Len(validQuestions') = Len(validQuestions)
       /\ \A other \in DOMAIN report.questions \ {key} :
            report'.questions[other] = report.questions[other]
       /\ report'.fixedQuestions + report'.removedQuestions = idx
       /\ report'.totalQuestions = Len(questions)

C12_LastEntryKept == [][C12_Step]_vars

\* Two records shared an identifier; the first was accepted and the second
\* removed: the map has the one entry of the second, the counters count both.
C12_Witness ==
  /\ pc = "exited"
  /\ run = 1
  /\ Len(questions) = 2
  /\ QuestionId(questions[1]) = QuestionId(questions[2])
  /\ Cardinality(DOMAIN report.questions) = 1
  /\ report.totalQuestions = 2
  /\ report.fixedQuestions = 1
  /\ report.removedQuestions = 1
  /\ Len(validQuestions) = 1
  /\ EntryOf(report, 2).wasRemoved

---------------------------------------------------------------------------
\* C13: after every processed record the output dataset is as long as
\* fixedQuestions says, and the output keeps the order of the input: an
\* iteration leaves the records already in the output where they are and
\* appends at most one record, at the end, which carries the identifier of
\* the record it processed and no more options than that record.
C13_Step ==
  (Process /\ pc' = "loop") =>
    LET q == questions[idx]
        n == Len(validQuestions)
    IN /\ Len(validQuestions') = report'.fixedQuestions
       /\ Len(validQuestions') \in {n, n + 1}
       /\ SubSeq(validQuestions', 1, n) = validQuestions
       /\ Len(validQuestions') = n + 1 =>
            /\ validQuestions'[n + 1].id = Or(q.question_id, q.id)
            /\ Len(validQuestions'[n + 1].options) <= Len(q.options.arr)

C13_OutputInInputOrder == [][C13_Step]_vars

\* Two records with different identifiers were both accepted and stand in
\* the output in the order of the input.
C13_Witness ==
  /\ run = 1
  /\ idx = 3
  /\ Len(validQuestions) = 2
  /\ report.fixedQuestions = 2
  /\ QuestionId(questions[1]) # QuestionId(questions[2])
  /\ validQuestions[1].id = QuestionId(questions[1])
  /\ validQuestions[2].id = QuestionId(questions[2])

====
